---- MODULE Spec2Model ----
(***************************************************************************)
(* agents-link: the link/copy reconciliation engine of src/index.js.       *)
(*                                                                         *)
(* The state is the part of the filesystem the engine reads and writes     *)
(* (the source AGENTS.md, the target paths, their parent directories, one  *)
(* path outside the target list that a symlink may point to) and the       *)
(* position of the running command (init, sync, clean, printTargets) in    *)
(* its loop over TARGET_FILES.  One action is one call of createLink,      *)
(* updateManagedCopy or removeLink on one target, one status line of       *)
(* printTargets, or the prologue/epilogue of a command.  A second          *)
(* specification runs two init commands side by side, one filesystem call  *)
(* at a time.                                                              *)
(*                                                                         *)
(* Paths are sequences of components below the working directory, so that  *)
(* path.dirname, path.relative and path.resolve are computed, not assumed. *)
(* File contents are sequences of tokens; the managed marker is one token. *)
(***************************************************************************)
EXTENDS Integers, Sequences, FiniteSets, TLC

VARIABLES
    fs,        \* path -> directory entry (absent, regular file, symlink,
               \* directory)
    dirs,      \* the directories that exist (paths)
    cmd,       \* the command running or last run: "none", "init", "sync", "clean",
               \* "targets"
    pc,        \* "idle", "loop", "done", "thrown"
    idx,       \* number of targets of TARGET_FILES the loop has processed
    failures,  \* init's failures list
    errcode,   \* code of the error the command threw: "none", "EIO", "ENOENT"
    calls,     \* history: target -> number of per-target calls in this command
    made,      \* history: target -> what the preceding call on it created
    last,      \* history: the record of the latest per-target call
    results,   \* history: target -> outcome of the call on it in this command
    ioErrors,  \* history: number of I/O errors the calls have met so far
    runA,      \* a command's loop run over TARGET_FILES in the configured order
    runB,      \* the same loop run from the same state in another order
    procs,     \* run -> position and local variables of an init run that
               \* shares the directory with other runs
    trip       \* history: "init" while an init that found AGENTS.md and no
               \* target runs without I/O error, "clean" while the clean
               \* that follows it does, "off" otherwise

vars == <<fs, dirs, cmd, pc, idx, failures, errcode, calls, made, last, results, ioErrors, runA, runB, procs, trip>>

----------------------------------------------------------------------------
(* Bounds of the model *)

\* how many of the configured target files the model keeps
NumTargets == 2

\* how many I/O errors (other than "symlinks are unsupported") the calls of a
\* behaviour meet in total
MaxIOFaults == 2

\* how many different texts a file written by the user may hold
NumTexts == 2

----------------------------------------------------------------------------
(* Constants of the program *)

SOURCE_FILE == <<"AGENTS.md">>

MANAGED_MARKER == "agents-link:managed:e3b0c44298fc1c149afbf4c8996fb92427ae41e4649b934ca495991b7852b855"

\* The configured list, in the source's order.  The model keeps NumTargets
\* of them, starting at the second so that one target with missing parent
\* directories is among them.
AllTargets ==
    << <<"CLAUDE.md">>,
       <<"GEMINI.md">>,
       <<".cursor", "rules", "AGENTS.md">>,
       <<".cursorrules">>,
       <<".windsurf", "rules", "AGENTS.md">>,
       <<".github", "copilot-instructions.md">>,
       <<".rules">> >>

TARGET_FILES == SubSeq(AllTargets, 2, NumTargets + 1)

Targets == {TARGET_FILES[i] : i \in 1..Len(TARGET_FILES)}

\* A path of the working directory that is neither the source nor a target.
OtherPath == <<"notes.md">>

Paths == {SOURCE_FILE, OtherPath} \cup Targets

generateManagedHeader ==
    << "<!--", MANAGED_MARKER, "-->",
       "<!-- This file is auto-managed by agents-link. Do not edit manually. -->",
       "<!-- Source: AGENTS.md -->",
       "" >>

generateDefaultAgentsMd ==
    << "# AGENTS.md", "## Project Overview", "## Development Guidelines",
       "## Testing", "## Contributing", "## Additional Notes" >>

\* content.includes(MANAGED_MARKER)
Includes(content, marker) == \E i \in 1..Len(content) : content[i] = marker

----------------------------------------------------------------------------
(* Texts the user may have put in files *)

AllTexts ==
    << <<"Hello">>,
       <<"Hello", "World">>,
       <<>>,
       <<"more">> >>

\* what AGENTS.md may hold
Texts == {AllTexts[i] : i \in 1..NumTexts}

\* a hand-written file of the user
ForeignText == <<"custom rules">>

\* a hand-written file that happens to quote the marker
QuotingText == <<"see", MANAGED_MARKER>>

----------------------------------------------------------------------------
(* Directory entries *)

Absent == [kind |-> "absent", content |-> <<>>, dest |-> <<>>]
File(c) == [kind |-> "file", content |-> c, dest |-> <<>>]
Link(d) == [kind |-> "link", content |-> <<>>, dest |-> d]
Directory == [kind |-> "dir", content |-> <<>>, dest |-> <<>>]

World == [fs |-> fs, dirs |-> dirs]

----------------------------------------------------------------------------
(* node:path *)

\* path.dirname
Dirname(p) == SubSeq(p, 1, Len(p) - 1)

RECURSIVE CommonLen(_, _)
CommonLen(a, b) ==
    IF a # <<>> /\ b # <<>> /\ Head(a) = Head(b)
    THEN 1 + CommonLen(Tail(a), Tail(b))
    ELSE 0

\* path.relative(from, to): climb out of what is not shared, then descend
Relative(from, to) ==
    LET k == CommonLen(from, to)
    IN  [i \in 1..(Len(from) - k) |-> ".."] \o SubSeq(to, k + 1, Len(to))

RECURSIVE PathResolve(_, _)
\* path.resolve(base, rel): apply the components of rel to base
PathResolve(base, rel) ==
    IF rel = <<>> THEN base
    ELSE IF Head(rel) = ".."
         THEN PathResolve(Dirname(base), Tail(rel))
         ELSE PathResolve(Append(base, Head(rel)), Tail(rel))

\* every directory on the way to dir, dir included (mkdir recursive)
Ancestors(dir) == {SubSeq(dir, 1, n) : n \in 0..Len(dir)}

----------------------------------------------------------------------------
(* node:fs, as far as the engine uses it.  A call fails when the filesystem *)
(* state makes it fail, or when its kind is in the set f of calls that the  *)
(* platform rejects during this per-target operation (symlinks unsupported, *)
(* permission denied, I/O error).  Every call returns [ok, w, val].         *)

FaultKinds == {"symlink", "read", "write", "unlink", "mkdir", "readlink"}

\* the kernel gives up on a chain of links longer than this; any chain longer
\* than the number of paths is a cycle
MaxSymlinks == Cardinality(Paths)

RECURSIVE Follow(_, _, _)
\* resolve p the way open(2)/access(2) do: follow symlinks to the end
Follow(w, p, n) ==
    IF p \notin Paths
    THEN [st |-> IF p \in w.dirs THEN "dir" ELSE "missing", path |-> p]
    ELSE CASE w.fs[p].kind = "absent" -> [st |-> "missing", path |-> p]
           [] w.fs[p].kind = "file"   -> [st |-> "file", path |-> p]
           [] w.fs[p].kind = "dir"    -> [st |-> "dir", path |-> p]
           [] w.fs[p].kind = "link"   ->
                IF n = 0 THEN [st |-> "loop", path |-> p]
                ELSE Follow(w, PathResolve(Dirname(p), w.fs[p].dest), n - 1)

\* fs.accessSync(p, F_OK): follows symlinks
accessSync(w, p) ==
    [ok |-> Follow(w, p, MaxSymlinks).st \in {"file", "dir"}, w |-> w, val |-> <<>>]

\* fs.lstatSync(p).isSymbolicLink(): does not follow; throws when p is absent
lstatSync(w, p) ==
    [ok |-> IF p \in Paths THEN w.fs[p].kind # "absent" ELSE p \in w.dirs,
     w |-> w,
     val |-> p \in Paths /\ w.fs[p].kind = "link"]

\* fs.readlinkSync(p)
readlinkSync(w, p, f) ==
    LET good == "readlink" \notin f /\ p \in Paths /\ w.fs[p].kind = "link"
    IN  [ok |-> good, w |-> w, val |-> IF good THEN w.fs[p].dest ELSE <<>>]

\* fs.readFileSync(p, "utf8"): follows symlinks; EISDIR on a directory
readFileSync(w, p, f) ==
    LET r == Follow(w, p, MaxSymlinks)
        good == "read" \notin f /\ r.st = "file"
    IN  [ok |-> good, w |-> w, val |-> IF good THEN w.fs[r.path].content ELSE <<>>]

\* fs.writeFileSync(p, c, "utf8"): open with O_CREAT|O_TRUNC follows symlinks,
\* and creates the file a dangling symlink points to
writeFileSync(w, p, c, f) ==
    LET r == Follow(w, p, MaxSymlinks)
        good == /\ "write" \notin f
                /\ r.path \in Paths
                /\ \/ r.st = "file"
                   \/ r.st = "missing" /\ Dirname(r.path) \in w.dirs
    IN  [ok |-> good,
         w |-> IF good THEN [w EXCEPT !.fs[r.path] = File(c)] ELSE w,
         val |-> <<>>]

\* fs.unlinkSync(p): removes the entry p itself, unless it is a directory
unlinkSync(w, p, f) ==
    LET good == "unlink" \notin f /\ p \in Paths /\ w.fs[p].kind \in {"file", "link"}
    IN  [ok |-> good,
         w |-> IF good THEN [w EXCEPT !.fs[p] = Absent] ELSE w,
         val |-> <<>>]

\* fs.symlinkSync(rel, p, "file"): EEXIST when any entry is at p
symlinkSync(w, rel, p, f) ==
    LET good == /\ "symlink" \notin f
                /\ p \in Paths
                /\ w.fs[p].kind = "absent"
                /\ Dirname(p) \in w.dirs
    IN  [ok |-> good,
         w |-> IF good THEN [w EXCEPT !.fs[p] = Link(rel)] ELSE w,
         val |-> <<>>]

\* fs.mkdirSync(dir, {recursive: true})
mkdirSync(w, dir, f) ==
    LET good == "mkdir" \notin f
    IN  [ok |-> good,
         w |-> IF good THEN [w EXCEPT !.dirs = @ \cup Ancestors(dir)] ELSE w,
         val |-> <<>>]

----------------------------------------------------------------------------
(* The helpers of index.js *)

\* isManagedFile answering true when the file cannot be read
isManagedFileUnlessRead(w, filePath, f) ==
    LET r == readFileSync(w, filePath, f)
    IN  ~r.ok \/ Includes(r.val, MANAGED_MARKER)

isManagedFile(w, filePath, f) ==
    LET r == readFileSync(w, filePath, f)
    IN  r.ok /\ Includes(r.val, MANAGED_MARKER)

isSymlink(w, filePath) ==
    LET r == lstatSync(w, filePath)
    IN  r.ok /\ r.val

fileExists(w, filePath) == accessSync(w, filePath).ok

\* returns [ok, w]: ok is FALSE when mkdirSync threw
ensureDir(w, filePath, f) ==
    LET dir == Dirname(filePath)
    IN  IF ~fileExists(w, dir)
        THEN LET r == mkdirSync(w, dir, f) IN [ok |-> r.ok, w |-> r.w]
        ELSE [ok |-> TRUE, w |-> w]

----------------------------------------------------------------------------
(* createLink.  The outcome is the console line the call prints:           *)
(*   "linked"      symlink already exists        (returns true)            *)
(*   "elsewhere"   symlink exists but points elsewhere        (true)       *)
(*   "managed"     managed copy already exists   (true)                    *)
(*   "skipped"     file exists, not managed - skipping        (true)       *)
(*   "symlink"     symlink created               (true)                    *)
(*   "copy"        managed copy created          (true)                    *)
(*   "failed"      failed: ...                   (false)                   *)
(*   "unexpected"  unexpected error: ...         (false)                   *)
(*   "thrown"      an exception left the function                          *)

\* CreateFresh giving up when the platform rejects the symlink
CreateFreshNoFallback(w, absoluteSource, absoluteTarget, f) ==
    LET d == ensureDir(w, absoluteTarget, f)
        relativeSource == Relative(Dirname(absoluteTarget), absoluteSource)
        s == symlinkSync(d.w, relativeSource, absoluteTarget, f)
    IN  IF ~d.ok THEN [w |-> d.w, out |-> "thrown"]
        ELSE IF s.ok THEN [w |-> s.w, out |-> "symlink"]
        ELSE [w |-> d.w, out |-> "failed"]

\* CreateFresh with the link text computed from the working directory
\* instead of the target's directory
CreateFreshFromCwd(w, absoluteSource, absoluteTarget, f) ==
    LET d == ensureDir(w, absoluteTarget, f)
        relativeSource == Relative(<<>>, absoluteSource)
        s == symlinkSync(d.w, relativeSource, absoluteTarget, f)
        sourceContent == readFileSync(d.w, absoluteSource, f)
        managedContent == generateManagedHeader \o sourceContent.val
        c == writeFileSync(d.w, absoluteTarget, managedContent, f)
    IN  IF ~d.ok THEN [w |-> d.w, out |-> "thrown"]
        ELSE IF s.ok THEN [w |-> s.w, out |-> "symlink"]
        ELSE IF sourceContent.ok /\ c.ok THEN [w |-> c.w, out |-> "copy"]
        ELSE [w |-> d.w, out |-> "failed"]

\* lines 148-171: create the parent directories, try a symlink, fall back
\* to a managed copy
CreateFresh(w, absoluteSource, absoluteTarget, f) ==
    LET d == ensureDir(w, absoluteTarget, f)
        relativeSource == Relative(Dirname(absoluteTarget), absoluteSource)
        s == symlinkSync(d.w, relativeSource, absoluteTarget, f)
        sourceContent == readFileSync(d.w, absoluteSource, f)
        managedContent == generateManagedHeader \o sourceContent.val
        c == writeFileSync(d.w, absoluteTarget, managedContent, f)
    IN  IF ~d.ok THEN [w |-> d.w, out |-> "thrown"]
        ELSE IF s.ok THEN [w |-> s.w, out |-> "symlink"]
        ELSE IF sourceContent.ok /\ c.ok THEN [w |-> c.w, out |-> "copy"]
        ELSE [w |-> d.w, out |-> "failed"]

\* createLinkBody rewriting a managed copy it finds in place
createLinkBodyRefresh(w, absoluteSource, absoluteTarget, f) ==
    IF fileExists(w, absoluteTarget)
    THEN IF isSymlink(w, absoluteTarget)
         THEN LET linkTarget == readlinkSync(w, absoluteTarget, f)
                  resolvedLink == PathResolve(Dirname(absoluteTarget), linkTarget.val)
                  u == unlinkSync(w, absoluteTarget, f)
              IN  IF linkTarget.ok
                  THEN IF resolvedLink = absoluteSource
                       THEN [w |-> w, out |-> "linked"]
                       ELSE [w |-> w, out |-> "elsewhere"]
                  ELSE CreateFresh(u.w, absoluteSource, absoluteTarget, f)
         ELSE IF isManagedFile(w, absoluteTarget, f)
              THEN [w |-> writeFileSync(w, absoluteTarget,
                                        generateManagedHeader
                                          \o readFileSync(w, absoluteSource, f).val,
                                        f).w,
                    out |-> "managed"]
              ELSE [w |-> w, out |-> "skipped"]
    ELSE CreateFresh(w, absoluteSource, absoluteTarget, f)

\* createLinkBody with a symlink that points elsewhere replaced like a
\* broken one
createLinkBodyRelink(w, absoluteSource, absoluteTarget, f) ==
    IF fileExists(w, absoluteTarget)
    THEN IF isSymlink(w, absoluteTarget)
         THEN LET linkTarget == readlinkSync(w, absoluteTarget, f)
                  resolvedLink == PathResolve(Dirname(absoluteTarget), linkTarget.val)
                  u == unlinkSync(w, absoluteTarget, f)
              IN  IF linkTarget.ok /\ resolvedLink = absoluteSource
                  THEN [w |-> w, out |-> "linked"]
                  ELSE CreateFresh(u.w, absoluteSource, absoluteTarget, f)
         ELSE IF isManagedFile(w, absoluteTarget, f)
              THEN [w |-> w, out |-> "managed"]
              ELSE [w |-> w, out |-> "skipped"]
    ELSE CreateFresh(w, absoluteSource, absoluteTarget, f)

\* lines 111-171: the body of the outer try
createLinkBody(w, absoluteSource, absoluteTarget, f) ==
    IF fileExists(w, absoluteTarget)
    THEN IF isSymlink(w, absoluteTarget)
         THEN LET linkTarget == readlinkSync(w, absoluteTarget, f)
                  resolvedLink == PathResolve(Dirname(absoluteTarget), linkTarget.val)
                  u == unlinkSync(w, absoluteTarget, f)
              IN  IF linkTarget.ok
                  THEN IF resolvedLink = absoluteSource
                       THEN [w |-> w, out |-> "linked"]
                       ELSE [w |-> w, out |-> "elsewhere"]
                  ELSE \* readlink threw: unlink, ignore its failure, fall through
                       CreateFresh(u.w, absoluteSource, absoluteTarget, f)
         ELSE IF isManagedFile(w, absoluteTarget, f)
              THEN [w |-> w, out |-> "managed"]
              ELSE [w |-> w, out |-> "skipped"]
    ELSE CreateFresh(w, absoluteSource, absoluteTarget, f)

\* createLink without the outer try/catch
createLinkUncaught(w, sourcePath, targetPath, f) ==
    createLinkBody(w, sourcePath, targetPath, f)

\* lines 109-177: the outer catch turns any exception into "unexpected"
createLink(w, sourcePath, targetPath, f) ==
    LET r == createLinkBody(w, sourcePath, targetPath, f)
    IN  IF r.out = "thrown" THEN [w |-> r.w, out |-> "unexpected"] ELSE r

\* createLink returning false for everything it did not create or find in
\* place
SuccessOnlyIfSatisfied(out) ==
    out \notin {"failed", "unexpected", "skipped", "elsewhere"}

\* the boolean createLink returns
Success(out) == out \notin {"failed", "unexpected"}

----------------------------------------------------------------------------
(* updateManagedCopy.  Outcomes: "absent" (does not exist), "issymlink"    *)
(* (symlink, no sync needed), "notmanaged" (not managed, skipping),        *)
(* "synced", "failed".                                                     *)

\* updateManagedCopy writing the source content without the managed header
updateManagedCopyNoHeader(w, sourcePath, targetPath, f) ==
    IF ~fileExists(w, targetPath) THEN [w |-> w, out |-> "absent"]
    ELSE IF isSymlink(w, targetPath) THEN [w |-> w, out |-> "issymlink"]
    ELSE IF ~isManagedFile(w, targetPath, f) THEN [w |-> w, out |-> "notmanaged"]
    ELSE LET sourceContent == readFileSync(w, sourcePath, f)
             c == writeFileSync(w, targetPath, sourceContent.val, f)
         IN  IF sourceContent.ok /\ c.ok
             THEN [w |-> c.w, out |-> "synced"]
             ELSE [w |-> w, out |-> "failed"]

updateManagedCopy(w, sourcePath, targetPath, f) ==
    IF ~fileExists(w, targetPath) THEN [w |-> w, out |-> "absent"]
    ELSE IF isSymlink(w, targetPath) THEN [w |-> w, out |-> "issymlink"]
    ELSE IF ~isManagedFile(w, targetPath, f) THEN [w |-> w, out |-> "notmanaged"]
    ELSE LET sourceContent == readFileSync(w, sourcePath, f)
             managedContent == generateManagedHeader \o sourceContent.val
             c == writeFileSync(w, targetPath, managedContent, f)
         IN  IF sourceContent.ok /\ c.ok
             THEN [w |-> c.w, out |-> "synced"]
             ELSE [w |-> w, out |-> "failed"]

----------------------------------------------------------------------------
(* removeLink.  Outcomes: "absent" (does not exist), "rmsymlink" (symlink  *)
(* removed), "rmcopy" (managed copy removed), "notmanaged", "failed".      *)

\* removeLink leaving managed copies in place
removeLinkSymlinksOnly(w, targetPath, f) ==
    IF ~fileExists(w, targetPath) THEN [w |-> w, out |-> "absent"]
    ELSE IF isSymlink(w, targetPath)
    THEN LET u == unlinkSync(w, targetPath, f)
         IN  IF u.ok THEN [w |-> u.w, out |-> "rmsymlink"]
             ELSE [w |-> w, out |-> "failed"]
    ELSE [w |-> w, out |-> "notmanaged"]

\* removeLink without the isManagedFile test: any regular file is deleted
removeLinkAnyFile(w, targetPath, f) ==
    IF ~fileExists(w, targetPath) THEN [w |-> w, out |-> "absent"]
    ELSE LET u == unlinkSync(w, targetPath, f)
         IN  IF u.ok
             THEN [w |-> u.w,
                   out |-> IF isSymlink(w, targetPath) THEN "rmsymlink" ELSE "rmcopy"]
             ELSE [w |-> w, out |-> "failed"]

removeLink(w, targetPath, f) ==
    IF ~fileExists(w, targetPath) THEN [w |-> w, out |-> "absent"]
    ELSE IF isSymlink(w, targetPath)
    THEN LET u == unlinkSync(w, targetPath, f)
         IN  IF u.ok THEN [w |-> u.w, out |-> "rmsymlink"]
             ELSE [w |-> w, out |-> "failed"]
    ELSE IF isManagedFile(w, targetPath, f)
    THEN LET u == unlinkSync(w, targetPath, f)
         IN  IF u.ok THEN [w |-> u.w, out |-> "rmcopy"]
             ELSE [w |-> w, out |-> "failed"]
    ELSE [w |-> w, out |-> "notmanaged"]

----------------------------------------------------------------------------
(* printTargets.  The outcome is the status printed after the target's     *)
(* name: "[symlink]", "[managed]", "[exists, not managed]", "[not created]" *)

\* lines 350-364: the body of the loop of printTargets
status(w, absolutePath, f) ==
    LET exists == fileExists(w, absolutePath)
        isLink == isSymlink(w, absolutePath)
        isManaged == ~isLink /\ exists /\ isManagedFile(w, absolutePath, f)
    IN  [w |-> w,
         out |-> IF isLink THEN "[symlink]"
                 ELSE IF isManaged THEN "[managed]"
                 ELSE IF exists THEN "[exists, not managed]"
                 ELSE "[not created]"]

----------------------------------------------------------------------------
(* History kept for stating the properties: what a path was before a call, *)
(* what the call did, and what the preceding call on the target created.   *)

\* what is really at p: "absent", "dangling" (a symlink that does not
\* resolve), "linksrc" (a resolving symlink whose destination is the
\* source), "linkother" (any other resolving symlink), "managed" (a regular
\* file holding the marker), "foreign" (any other regular file), "directory"
Classify(w, p) ==
    CASE w.fs[p].kind = "absent" -> "absent"
      [] w.fs[p].kind = "dir" -> "directory"
      [] w.fs[p].kind = "file" ->
            IF Includes(w.fs[p].content, MANAGED_MARKER) THEN "managed" ELSE "foreign"
      [] w.fs[p].kind = "link" ->
            IF Follow(w, p, MaxSymlinks).st \notin {"file", "dir"} THEN "dangling"
            ELSE IF PathResolve(Dirname(p), w.fs[p].dest) = SOURCE_FILE THEN "linksrc"
            ELSE "linkother"

\* the path the kernel ends at when it follows p
FinalPath(w, p) == Follow(w, p, MaxSymlinks).path

NotMade == [pre |-> "none", out |-> "none"]

NoCall ==
    [cmd |-> "none", t |-> <<>>, pre |-> "none", out |-> "none",
     faultfree |-> TRUE, kept |-> TRUE, confined |-> TRUE, post |-> "none",
     dest |-> <<>>, destKept |-> TRUE, fresh |-> FALSE, made |-> NotMade,
     nolink |-> FALSE, noread |-> FALSE]

\* the faults that are a property of the platform rather than an I/O error
Platform(f) == f \cap {"symlink"}

\* the sets of failing calls a function can meet: any set of the calls it
\* makes, within the number of I/O errors left
FaultSets(kinds) ==
    {f \in SUBSET kinds : ioErrors + Cardinality(f \ Platform(f)) <= MaxIOFaults}

Met(f) == ioErrors + Cardinality(f \ Platform(f))

\* what a reader of p gets: the content of the file p resolves to
ReadThrough(w, p) == readFileSync(w, p, {})

\* the record of a call of command c on target t that took w to r.w with
\* outcome r.out on a platform rejecting the calls in f, where r0 is what the
\* same call does without I/O errors
Record(c, t, f, w, r, r0) ==
    [cmd |-> c,
     t |-> t,
     pre |-> Classify(w, t),
     out |-> r.out,
     faultfree |-> (r = r0),
     kept |-> (r.w.fs[t] = w.fs[t]),
     confined |-> /\ \A p \in Paths \ {t} : r.w.fs[p] = w.fs[p]
                  /\ r.w.dirs \ w.dirs \subseteq Ancestors(Dirname(t)),
     post |-> Classify(r.w, t),
     dest |-> FinalPath(w, t),
     destKept |-> (r.w.fs[FinalPath(w, t)] = w.fs[FinalPath(w, t)]),
     fresh |-> /\ ReadThrough(r.w, t).ok
               /\ ReadThrough(r.w, SOURCE_FILE).ok
               /\ ReadThrough(r.w, t).val
                    = generateManagedHeader \o ReadThrough(r.w, SOURCE_FILE).val,
     made |-> made[t],
     nolink |-> "symlink" \in f,
     noread |-> "read" \in f]

\* what the call leaves in made[t]: a creation by createLink, or nothing
Made(c, t, w, r) ==
    IF c = "init" /\ r.out \in {"symlink", "copy"}
    THEN [pre |-> Classify(w, t), out |-> r.out]
    ELSE NotMade

NoRun == [c |-> "none", order |-> <<>>, w |-> [fs |-> <<>>, dirs |-> {}], outs |-> <<>>]

----------------------------------------------------------------------------
(* Initial states: any filesystem a user can have left behind.             *)

FileTexts ==
    {ForeignText, QuotingText} \cup {generateManagedHeader \o x : x \in Texts}

AllDirs == UNION {Ancestors(Dirname(p)) : p \in Paths}

EntriesAt(p) ==
    IF p = SOURCE_FILE THEN {Absent, File(AllTexts[1])}
    ELSE IF p = OtherPath THEN {Absent, File(ForeignText)}
    ELSE {Absent, Directory} \cup {File(x) : x \in FileTexts}
         \cup {Link(Relative(Dirname(p), q)) : q \in Paths \ {p}}

WellFormed(w) ==
    /\ <<>> \in w.dirs
    /\ \A d \in w.dirs : Ancestors(d) \subseteq w.dirs
    /\ \A p \in Paths : w.fs[p].kind # "absent" => Dirname(p) \in w.dirs

Init ==
    /\ fs \in [Paths -> UNION {EntriesAt(p) : p \in Paths}]
    /\ \A p \in Paths : fs[p] \in EntriesAt(p)
    /\ dirs \in SUBSET AllDirs
    /\ WellFormed(World)
    /\ cmd = "none"
    /\ pc = "idle"
    /\ idx = 0
    /\ failures = <<>>
    /\ errcode = "none"
    /\ calls = [t \in Targets |-> 0]
    /\ made = [t \in Targets |-> NotMade]
    /\ last = NoCall
    /\ results = [t \in Targets |-> "none"]
    /\ ioErrors = 0
    /\ runA = NoRun
    /\ runB = NoRun
    /\ procs = <<>>
    /\ trip = "off"

----------------------------------------------------------------------------
(* The commands.  A command may start when none is running.                *)

CanStart == pc \in {"idle", "done", "thrown"}

Begin(c) ==
    /\ cmd' = c
    /\ idx' = 0
    /\ failures' = <<>>
    /\ calls' = [t \in Targets |-> 0]
    /\ last' = NoCall
    /\ results' = [t \in Targets |-> "none"]
    /\ trip' = CASE c = "init" ->
                        IF /\ fileExists(World, SOURCE_FILE)
                           /\ \A t \in Targets : fs[t] = Absent
                        THEN "init" ELSE "off"
                  [] c = "clean" ->
                        IF trip = "init" /\ pc = "done" THEN "clean" ELSE "off"
                  [] OTHER -> "off"
    /\ UNCHANGED <<made, runA, runB, procs>>

\* init(), lines 249-269: create AGENTS.md from the template when missing
StartInit(f) ==
    /\ CanStart
    /\ Begin("init")
    /\ ioErrors' = Met(f)
    /\ IF ~fileExists(World, SOURCE_FILE)
       THEN LET r == writeFileSync(World, SOURCE_FILE, generateDefaultAgentsMd, f)
            IN  /\ fs' = r.w.fs
                /\ dirs' = r.w.dirs
                /\ pc' = IF r.ok THEN "loop" ELSE "thrown"
                /\ errcode' = IF r.ok THEN "none" ELSE "EIO"
       ELSE /\ pc' = "loop"
            /\ errcode' = "none"
            /\ UNCHANGED <<fs, dirs>>

\* one iteration of a command's loop over TARGET_FILES: r is what the
\* per-target function did, caught says whether the loop catches what it throws
Iterate(c, t, f, r, r0, caught) ==
    /\ ioErrors' = Met(f)
    /\ fs' = r.w.fs
    /\ dirs' = r.w.dirs
    /\ calls' = [calls EXCEPT ![t] = @ + 1]
    /\ last' = Record(c, t, f, World, r, r0)
    /\ results' = [results EXCEPT ![t] = r.out]
    /\ made' = [made EXCEPT ![t] = Made(c, t, World, r)]
    /\ IF r.out = "thrown" /\ ~caught
       THEN /\ pc' = "thrown"
            /\ errcode' = "EIO"
            /\ UNCHANGED idx
       ELSE /\ idx' = idx + 1
            /\ UNCHANGED <<pc, errcode>>
    /\ trip' = IF r = r0 THEN trip ELSE "off"
    /\ UNCHANGED <<cmd, runA, runB, procs>>

\* init(), lines 272-283
InitStep(f) ==
    /\ pc = "loop" /\ cmd = "init" /\ idx < Len(TARGET_FILES)
    /\ \E targetFile \in {TARGET_FILES[idx + 1]} :
       \E r \in {createLink(World, SOURCE_FILE, targetFile, f)} :
       \E r0 \in {createLink(World, SOURCE_FILE, targetFile, Platform(f))} :
           /\ Iterate("init", targetFile, f, r, r0, TRUE)
           /\ failures' = IF Success(r.out) /\ r.out # "thrown"
                          THEN failures
                          ELSE Append(failures, targetFile)

\* init(), lines 285-300
FinishInit ==
    /\ pc = "loop" /\ cmd = "init" /\ idx = Len(TARGET_FILES)
    /\ pc' = IF Len(failures) > 0 THEN "thrown" ELSE "done"
    /\ errcode' = IF Len(failures) > 0 THEN "EIO" ELSE "none"
    /\ UNCHANGED <<fs, dirs, cmd, idx, failures, calls, made, last, results, ioErrors, runA, runB, procs, trip>>

\* sync() without the test of lines 310-315
StartSyncUnchecked ==
    /\ CanStart
    /\ Begin("sync")
    /\ UNCHANGED ioErrors
    /\ pc' = "loop"
    /\ errcode' = "none"
    /\ UNCHANGED <<fs, dirs>>

\* sync(), lines 307-317
StartSync ==
    /\ CanStart
    /\ Begin("sync")
    /\ UNCHANGED ioErrors
    /\ pc' = IF fileExists(World, SOURCE_FILE) THEN "loop" ELSE "thrown"
    /\ errcode' = IF fileExists(World, SOURCE_FILE) THEN "none" ELSE "ENOENT"
    /\ UNCHANGED <<fs, dirs>>

\* sync(), lines 319-321
SyncStep(f) ==
    /\ pc = "loop" /\ cmd = "sync" /\ idx < Len(TARGET_FILES)
    /\ \E targetFile \in {TARGET_FILES[idx + 1]} :
       \E r \in {updateManagedCopy(World, SOURCE_FILE, targetFile, f)} :
       \E r0 \in {updateManagedCopy(World, SOURCE_FILE, targetFile, Platform(f))} :
           Iterate("sync", targetFile, f, r, r0, FALSE)
    /\ UNCHANGED failures

\* sync(), line 323
FinishSync ==
    /\ pc = "loop" /\ cmd = "sync" /\ idx = Len(TARGET_FILES)
    /\ pc' = "done"
    /\ UNCHANGED <<fs, dirs, cmd, idx, failures, errcode, calls, made, last, results, ioErrors, runA, runB, procs, trip>>

\* clean(), lines 330-332
StartClean ==
    /\ CanStart
    /\ Begin("clean")
    /\ UNCHANGED ioErrors
    /\ pc' = "loop"
    /\ errcode' = "none"
    /\ UNCHANGED <<fs, dirs>>

\* clean(), lines 334-336
CleanStep(f) ==
    /\ pc = "loop" /\ cmd = "clean" /\ idx < Len(TARGET_FILES)
    /\ \E targetFile \in {TARGET_FILES[idx + 1]} :
       \E r \in {removeLink(World, targetFile, f)} :
       \E r0 \in {removeLink(World, targetFile, Platform(f))} :
           Iterate("clean", targetFile, f, r, r0, FALSE)
    /\ UNCHANGED failures

\* clean(), line 338
FinishClean ==
    /\ pc = "loop" /\ cmd = "clean" /\ idx = Len(TARGET_FILES)
    /\ pc' = "done"
    /\ UNCHANGED <<fs, dirs, cmd, idx, failures, errcode, calls, made, last, results, ioErrors, runA, runB, procs, trip>>

\* printTargets(), lines 345-347
StartPrintTargets ==
    /\ CanStart
    /\ Begin("targets")
    /\ UNCHANGED ioErrors
    /\ pc' = "loop"
    /\ errcode' = "none"
    /\ UNCHANGED <<fs, dirs>>

\* printTargets(), lines 349-367
PrintTargetsStep(f) ==
    /\ pc = "loop" /\ cmd = "targets" /\ idx < Len(TARGET_FILES)
    /\ \E targetFile \in {TARGET_FILES[idx + 1]} :
       \E r \in {status(World, targetFile, f)} :
       \E r0 \in {status(World, targetFile, Platform(f))} :
           Iterate("targets", targetFile, f, r, r0, FALSE)
    /\ UNCHANGED failures

\* printTargets(), line 368
FinishPrintTargets ==
    /\ pc = "loop" /\ cmd = "targets" /\ idx = Len(TARGET_FILES)
    /\ pc' = "done"
    /\ UNCHANGED <<fs, dirs, cmd, idx, failures, errcode, calls, made, last, results, ioErrors, runA, runB, procs, trip>>

\* the user edits AGENTS.md between two runs of the tool
EditSource(x) ==
    /\ CanStart
    /\ fs[SOURCE_FILE].kind = "file"
    /\ fs[SOURCE_FILE].content # x
    /\ fs' = [fs EXCEPT ![SOURCE_FILE] = File(x)]
    /\ trip' = "off"
    /\ UNCHANGED <<dirs, cmd, pc, idx, failures, errcode, calls, made, last, results, ioErrors, runA, runB, procs>>

Next ==
    \/ \E f \in FaultSets({"write"}) : StartInit(f)
    \/ \E f \in FaultSets(FaultKinds) : InitStep(f)
    \/ FinishInit
    \/ StartSync
    \/ \E f \in FaultSets({"read", "write"}) : SyncStep(f)
    \/ FinishSync
    \/ StartClean
    \/ \E f \in FaultSets({"read", "unlink"}) : CleanStep(f)
    \/ FinishClean
    \/ StartPrintTargets
    \/ \E f \in FaultSets({"read"}) : PrintTargetsStep(f)
    \/ FinishPrintTargets
    \/ \E x \in Texts : EditSource(x)

Spec == Init /\ [][Next]_vars

----------------------------------------------------------------------------
(* The loops of init, sync and clean as functions of the order in which    *)
(* they visit the targets, to compare two orders from the same state.      *)

\* the per-target call of command c
Apply(c, w, t, f) ==
    CASE c = "init"  -> createLink(w, SOURCE_FILE, t, f)
      [] c = "sync"  -> updateManagedCopy(w, SOURCE_FILE, t, f)
      [] c = "clean" -> removeLink(w, t, f)

RECURSIVE RunLoop(_, _, _, _, _)
\* for (const targetFile of order) ...: the final filesystem and the outcome
\* of each target
RunLoop(c, order, w, f, outs) ==
    IF order = <<>> THEN [c |-> c, order |-> <<>>, w |-> w, outs |-> outs]
    ELSE LET r == Apply(c, w, Head(order), f)
         IN  RunLoop(c, Tail(order), r.w, f, [outs EXCEPT ![Head(order)] = r.out])

Run(c, order, w, f) ==
    [RunLoop(c, order, w, f, [t \in Targets |-> "none"]) EXCEPT !.order = order]

\* the orders in which the targets can be visited
Orders ==
    {o \in [1..Len(TARGET_FILES) -> Targets] :
        \A i, j \in 1..Len(TARGET_FILES) : o[i] = o[j] => i = j}

\* init(), lines 253-267, when it succeeds
OrderPrologue ==
    /\ runA = NoRun
    /\ ~fileExists(World, SOURCE_FILE)
    /\ fs' = writeFileSync(World, SOURCE_FILE, generateDefaultAgentsMd, {}).w.fs
    /\ UNCHANGED <<dirs, cmd, pc, idx, failures, errcode, calls, made, last, results, ioErrors, runA, runB, procs, trip>>

\* run the loop of command c from the current filesystem in the configured
\* order and in the order o, on a platform that rejects the calls in p
CompareOrders(c, o, p) ==
    /\ runA = NoRun
    /\ o # TARGET_FILES
    /\ c \in {"init", "sync"} => fileExists(World, SOURCE_FILE)
    /\ runA' = Run(c, TARGET_FILES, World, p)
    /\ runB' = Run(c, o, World, p)
    /\ UNCHANGED <<fs, dirs, cmd, pc, idx, failures, errcode, calls, made, last, results, ioErrors, procs, trip>>

\* go on from the filesystem the configured order has left
AdoptRun ==
    /\ runA # NoRun
    /\ fs' = runA.w.fs
    /\ dirs' = runA.w.dirs
    /\ runA' = NoRun
    /\ runB' = NoRun
    /\ UNCHANGED <<cmd, pc, idx, failures, errcode, calls, made, last, results, ioErrors, procs, trip>>

NextOrder ==
    \/ OrderPrologue
    \/ \E c \in {"init", "sync", "clean"}, o \in Orders, p \in SUBSET {"symlink"} :
          CompareOrders(c, o, p)
    \/ AdoptRun

SpecOrder == Init /\ [][NextOrder]_vars

----------------------------------------------------------------------------
(* Two init runs, each a process of its own, in the same directory.  The   *)
(* runs interleave between any two filesystem calls; within one run the    *)
(* calls follow each other as in createLink.  AGENTS.md exists and the     *)
(* targets are absent at the start, and no call meets an I/O error; the    *)
(* platform may reject symlinks.                                           *)

Runs == {"A", "B"}

NewRun == [pc |-> "init", idx |-> 0, sourceContent |-> <<>>, failures |-> <<>>]

InitConcurrent ==
    /\ \E x \in Texts :
          fs = [p \in Paths |-> IF p = SOURCE_FILE THEN File(x) ELSE Absent]
    /\ dirs \in SUBSET AllDirs
    /\ WellFormed(World)
    /\ procs = [i \in Runs |-> NewRun]
    /\ cmd = "none"
    /\ pc = "idle"
    /\ idx = 0
    /\ failures = <<>>
    /\ errcode = "none"
    /\ calls = [t \in Targets |-> 0]
    /\ made = [t \in Targets |-> NotMade]
    /\ last = NoCall
    /\ results = [t \in Targets |-> "none"]
    /\ ioErrors = 0
    /\ runA = NoRun
    /\ runB = NoRun
    /\ trip = "off"

\* the target the run i is working on
TargetOf(i) == TARGET_FILES[procs[i].idx + 1]

At(i, label) == procs[i].pc = label /\ procs[i].idx < Len(TARGET_FILES)

\* the run i goes on within createLink
Goto(i, label, w) ==
    /\ procs' = [procs EXCEPT ![i].pc = label]
    /\ fs' = w.fs
    /\ dirs' = w.dirs

\* createLink has returned (false when failed): lines 274-277, next target
Return(i, failed, w) ==
    /\ procs' = [procs EXCEPT ![i] =
                    [pc |-> IF procs[i].idx + 1 < Len(TARGET_FILES)
                            THEN "fileExists" ELSE "finish",
                     idx |-> procs[i].idx + 1,
                     sourceContent |-> <<>>,
                     failures |-> IF failed
                                  THEN Append(procs[i].failures, TargetOf(i))
                                  ELSE procs[i].failures]]
    /\ fs' = w.fs
    /\ dirs' = w.dirs

Others == <<cmd, pc, idx, failures, errcode, calls, made, last, results, ioErrors, runA, runB, trip>>

\* init(), lines 253-267; the source exists here, so nothing is written
RunStart(i) ==
    /\ procs[i].pc = "init"
    /\ IF fileExists(World, SOURCE_FILE)
       THEN Goto(i, "fileExists", World)
       ELSE Goto(i, "fileExists",
                 writeFileSync(World, SOURCE_FILE, generateDefaultAgentsMd, {}).w)
    /\ UNCHANGED Others

\* line 115
RunFileExists(i) ==
    /\ At(i, "fileExists")
    /\ Goto(i, IF fileExists(World, TargetOf(i)) THEN "isSymlink" ELSE "ensureDir", World)
    /\ UNCHANGED Others

\* line 116
RunIsSymlink(i) ==
    /\ At(i, "isSymlink")
    /\ Goto(i, IF isSymlink(World, TargetOf(i)) THEN "readlink" ELSE "isManagedFile", World)
    /\ UNCHANGED Others

\* lines 117-138; readlinkSync cannot throw here, since no run removes an
\* entry: the catch is kept as part of the step
RunReadlink(i) ==
    /\ At(i, "readlink")
    /\ IF readlinkSync(World, TargetOf(i), {}).ok
       THEN Return(i, FALSE, World)
       ELSE Goto(i, "ensureDir", unlinkSync(World, TargetOf(i), {}).w)
    /\ UNCHANGED Others

\* lines 139-145: both answers return true
RunIsManagedFile(i) ==
    /\ At(i, "isManagedFile")
    /\ Return(i, FALSE, World)
    /\ UNCHANGED Others

\* ensureDir, line 100
RunEnsureDir(i) ==
    /\ At(i, "ensureDir")
    /\ Goto(i, IF fileExists(World, Dirname(TargetOf(i))) THEN "symlink" ELSE "mkdir", World)
    /\ UNCHANGED Others

\* ensureDir, line 101
RunMkdir(i) ==
    /\ At(i, "mkdir")
    /\ Goto(i, "symlink", mkdirSync(World, Dirname(TargetOf(i)), {}).w)
    /\ UNCHANGED Others

\* lines 151-159, on a platform that rejects the calls in p
RunSymlink(i, p) ==
    /\ At(i, "symlink")
    /\ LET s == symlinkSync(World, Relative(Dirname(TargetOf(i)), SOURCE_FILE),
                            TargetOf(i), p)
       IN  IF s.ok THEN Return(i, FALSE, s.w) ELSE Goto(i, "readSource", World)
    /\ UNCHANGED Others

\* line 162
RunReadSource(i) ==
    /\ At(i, "readSource")
    /\ LET r == readFileSync(World, SOURCE_FILE, {})
       IN  IF r.ok
           THEN /\ procs' = [procs EXCEPT ![i].pc = "writeCopy",
                                          ![i].sourceContent = r.val]
                /\ UNCHANGED <<fs, dirs>>
           ELSE Return(i, TRUE, World)
    /\ UNCHANGED Others

\* lines 163-170
RunWriteCopy(i) ==
    /\ At(i, "writeCopy")
    /\ LET c == writeFileSync(World, TargetOf(i),
                              generateManagedHeader \o procs[i].sourceContent, {})
       IN  Return(i, ~c.ok, c.w)
    /\ UNCHANGED Others

\* lines 285-300
RunFinish(i) ==
    /\ procs[i].pc = "finish"
    /\ procs' = [procs EXCEPT ![i].pc =
                    IF Len(procs[i].failures) > 0 THEN "thrown" ELSE "done"]
    /\ UNCHANGED <<fs, dirs>>
    /\ UNCHANGED Others

NextConcurrent ==
    \/ \E i \in Runs : RunStart(i)
    \/ \E i \in Runs : RunFileExists(i)
    \/ \E i \in Runs : RunIsSymlink(i)
    \/ \E i \in Runs : RunReadlink(i)
    \/ \E i \in Runs : RunIsManagedFile(i)
    \/ \E i \in Runs : RunEnsureDir(i)
    \/ \E i \in Runs : RunMkdir(i)
    \/ \E i \in Runs, p \in SUBSET {"symlink"} : RunSymlink(i, p)
    \/ \E i \in Runs : RunReadSource(i)
    \/ \E i \in Runs : RunWriteCopy(i)
    \/ \E i \in Runs : RunFinish(i)

SpecConcurrent == InitConcurrent /\ [][NextConcurrent]_vars

----------------------------------------------------------------------------
(* Properties.  last is the record of the latest per-target call, so an    *)
(* invariant about last speaks of every call of every run.  A call is      *)
(* fault-free when no I/O error changed what it did; "symlinks are         *)
(* unsupported" is a property of the platform, not an I/O error.           *)

Called(c) == last.cmd = c

\* C1 (non-destruction): createLink, updateManagedCopy and removeLink, called
\* on a target that is a regular file without the managed marker, leave the
\* file in place with the same content, whatever I/O errors the call meets.
C1_NonDestruction ==
    last.pre = "foreign" => (last.kept /\ last.post = "foreign")

\* removeLink has been called on a user's file in a directory of its own,
\* and the file is still there
C1_Witness ==
    /\ Called("clean") /\ last.pre = "foreign" /\ last.out = "notmanaged"
    /\ Len(last.t) > 1
    /\ fs[last.t] = File(ForeignText)

\* C2 (broken-link repair), as claimed: createLink on a symlink whose
\* destination does not exist leaves the target a symlink to the source, or a
\* managed copy at the target path, and reports a creation.
C2_BrokenLinkRepaired ==
    (Called("init") /\ last.pre = "dangling" /\ last.faultfree)
        => /\ last.out \in {"symlink", "copy"}
           /\ last.post \in {"linksrc", "managed"}

\* C3 (idempotence): a fault-free createLink on a target that the preceding
\* call on it, a createLink, created from nothing reports that the target is
\* already there (a symlink after a symlink, a managed copy after a copy) and
\* leaves the target's entry as it was.
C3_Idempotent ==
    (Called("init") /\ last.made.pre = "absent" /\ last.faultfree)
        => /\ last.out = (IF last.made.out = "symlink" THEN "linked" ELSE "managed")
           /\ last.kept

\* the second createLink has found the symlink of the first in a directory
\* the first had to create
C3_Witness ==
    /\ Called("init") /\ last.made = [pre |-> "absent", out |-> "symlink"]
    /\ last.faultfree /\ last.out = "linked" /\ last.kept
    /\ Len(last.t) > 1

\* C4 (remove of symlinks), as claimed: removeLink on a symlink, whatever its
\* destination, deletes the link entry, reports the removal of a symlink and
\* leaves the destination as it was.
C4_SymlinkRemoved ==
    (Called("clean") /\ last.pre \in {"dangling", "linksrc", "linkother"}
                     /\ last.faultfree)
        => /\ last.out = "rmsymlink"
           /\ last.post = "absent"
           /\ last.destKept

\* C5 (the source is read-only), as claimed: while a command loops over the
\* targets, no step changes the source file, whatever the targets are and
\* whatever I/O errors the step meets.
C5_SourceReadOnly ==
    [][(pc = "loop" /\ fs[SOURCE_FILE].kind = "file")
          => fs'[SOURCE_FILE] = fs[SOURCE_FILE]]_vars

\* C6 (write confinement), as claimed: createLink on t changes no entry other
\* than t and creates no directory other than the parents of t.
C6_WritesConfined == Called("init") => last.confined

\* C7 (order independence), as claimed: the loop of a command gives every
\* target the same outcome and leaves every target in the same state in
\* whatever order it visits the targets.
C7_OrderIndependent ==
    runA # NoRun
        => /\ runA.outs = runB.outs
           /\ \A t \in Targets : runA.w.fs[t] = runB.w.fs[t]

\* C8 (round trip), as claimed: after createLink has reported a managed copy,
\* a fault-free updateManagedCopy leaves the target reading as the managed
\* header followed by the current source content.
C8_RoundTrip ==
    (Called("sync") /\ last.made.out = "copy" /\ last.faultfree) => last.fresh

\* C9 (symlink precedence): a fault-free createLink on a symlink that resolves
\* and whose destination is not the source reports "points elsewhere", and
\* leaves the link entry and the file it leads to as they were.
C9_SymlinkPrecedence ==
    (Called("init") /\ last.pre = "linkother" /\ last.faultfree)
        => /\ last.out = "elsewhere"
           /\ last.kept
           /\ last.destKept

\* createLink has met a symlink to the user's notes
C9_Witness ==
    /\ Called("init") /\ last.pre = "linkother" /\ last.faultfree
    /\ last.dest = OtherPath /\ fs[OtherPath] = File(ForeignText)
    /\ fs[last.t].kind = "link"

\* C10 (per-target isolation): no per-target call lets an exception out, the
\* loop of every command calls the per-target function once on each target
\* it has passed and goes on after a failure, and a command ends only after
\* the last target (or before the first, in its prologue).
C10_PerTargetIsolation ==
    /\ last.out # "thrown"
    /\ \A i \in 1..Len(TARGET_FILES) :
          calls[TARGET_FILES[i]] = (IF i <= idx THEN 1 ELSE 0)
    /\ pc = "done" => idx = Len(TARGET_FILES)
    /\ pc = "thrown" => idx \in {0, Len(TARGET_FILES)}
    /\ (pc = "thrown" /\ idx = Len(TARGET_FILES)) => cmd = "init"

\* init has gone through all targets although the first of them failed
C10_Witness ==
    /\ cmd = "init" /\ pc = "thrown"
    /\ failures = <<TARGET_FILES[1]>>
    /\ \A t \in Targets : calls[t] = 1

\* C11 (aggregate result of init): once init has processed every target, it
\* throws exactly when some target's createLink reported a failure, and its
\* failures list holds exactly the targets that failed, each once, in the
\* order of TARGET_FILES; a target found in place or skipped is not in it.
C11_AggregateResult ==
    (cmd = "init" /\ pc \in {"done", "thrown"} /\ idx = Len(TARGET_FILES))
        => /\ (pc = "thrown") <=> (\E t \in Targets : results[t] \in {"failed", "unexpected"})
           /\ failures = SelectSeq(TARGET_FILES,
                                   LAMBDA t : results[t] \in {"failed", "unexpected"})
           /\ \A i \in 1..Len(failures) :
                 results[failures[i]] \notin {"linked", "elsewhere", "managed", "skipped"}

\* init has ended with errors: one target failed and is the only one listed,
\* another was skipped as a file that is not managed
C11_Witness ==
    /\ cmd = "init" /\ pc = "thrown" /\ idx = Len(TARGET_FILES)
    /\ Len(failures) = 1
    /\ results[failures[1]] = "failed"
    /\ \E t \in Targets : results[t] = "skipped"

\* C12 (sync contract): a fault-free updateManagedCopy on a regular file that
\* holds the marker reports "synced", leaves the target a regular file whose
\* content is the managed header followed by the current source content, and
\* changes nothing else; on any other target (absent, symlink, file without
\* the marker) it changes nothing.
C12_SyncContract ==
    (Called("sync") /\ last.faultfree)
        => IF last.pre = "managed"
           THEN /\ last.out = "synced"
                /\ last.fresh
                /\ last.post = "managed"
                /\ last.confined
           ELSE /\ last.out \in {"absent", "issymlink", "notmanaged"}
                /\ last.kept
                /\ last.confined

\* a managed copy that lagged behind the edited source has been rewritten
C12_Witness ==
    /\ Called("sync") /\ last.faultfree /\ last.pre = "managed"
    /\ last.out = "synced" /\ ~last.kept /\ last.fresh
    /\ \E x \in Texts : x # AllTexts[1] /\ fs[last.t] = File(generateManagedHeader \o x)

\* C13 (symlink-to-copy fallback): createLink on an absent target, on a
\* platform that rejects symlinks, reports "managed copy created" and leaves
\* at the target a regular file holding the managed header followed by the
\* source content, unless an I/O error occurs, and then it reports a failure;
\* the next createLink, updateManagedCopy or removeLink on that target treats
\* it as a managed copy.
C13_CopyFallback ==
    /\ (Called("init") /\ last.pre = "absent" /\ last.nolink)
          => /\ last.out \in {"copy", "failed", "unexpected"}
             /\ last.faultfree => last.out = "copy"
             /\ last.out = "copy"
                   => (last.post = "managed" /\ last.fresh /\ last.confined)
             /\ last.out # "copy" => last.post = "absent"
    /\ (last.made = [pre |-> "absent", out |-> "copy"] /\ last.faultfree)
          => /\ last.pre = "managed"
             /\ Called("init") => (last.out = "managed" /\ last.kept)
             /\ Called("sync") => (last.out = "synced" /\ last.fresh)
             /\ Called("clean") => (last.out = "rmcopy" /\ last.post = "absent")

\* clean has removed, as a managed copy, the file createLink wrote in a
\* directory it had to create
C13_Witness ==
    /\ Called("clean") /\ last.made = [pre |-> "absent", out |-> "copy"]
    /\ last.faultfree /\ last.out = "rmcopy"
    /\ Len(last.t) > 1

\* C14 (missing source on sync): sync throws exactly when AGENTS.md does not
\* exist; it then throws ENOENT before the first call of updateManagedCopy,
\* and the step that throws changes no file and no directory.
C14_MissingSourceOnSync ==
    /\ [](cmd = "sync"
            => /\ (pc = "thrown") <=> ~fileExists(World, SOURCE_FILE)
               /\ pc = "thrown"
                     => /\ errcode = "ENOENT"
                        /\ idx = 0
                        /\ \A t \in Targets : calls[t] = 0 /\ results[t] = "none"
                        /\ last = NoCall)
    /\ [][(cmd' = "sync" /\ pc' = "thrown") => (fs' = fs /\ dirs' = dirs)]_vars

\* sync has thrown ENOENT although a managed copy is waiting to be synced
C14_Witness ==
    /\ cmd = "sync" /\ pc = "thrown" /\ errcode = "ENOENT"
    /\ fs[SOURCE_FILE].kind = "absent"
    /\ \E t \in Targets : Classify(World, t) = "managed"

\* C15 (invariant I2), as claimed: a fault-free createLink, updateManagedCopy
\* or removeLink on a target that is a symlink never reports what it reports
\* for a managed copy, and leaves the path the link leads to as it was:
\* neither created, nor written, nor removed.
C15_SymlinkNeverManaged ==
    (last.pre \in {"dangling", "linksrc", "linkother"} /\ last.faultfree)
        => /\ last.out \notin {"managed", "copy", "synced", "rmcopy"}
           /\ last.destKept

\* C16 (classification of dangling symlinks), as claimed: every operation
\* that inspects a target that is a symlink to a path that does not exist
\* treats it as a symlink, never as absent: createLink finds a symlink in
\* place, updateManagedCopy reports a symlink, removeLink removes a symlink,
\* printTargets prints [symlink].
C16_DanglingIsSymlink ==
    (last.pre = "dangling" /\ last.faultfree)
        => last.out \in {"linked", "elsewhere", "issymlink", "rmsymlink", "[symlink]"}

\* C17 (no auto-correction of drift): createLink on a regular file holding
\* the marker leaves the file as it is, also when its content is not the
\* header followed by the current source content, and without I/O errors
\* reports "managed copy already exists"; updateManagedCopy is what brings
\* such a file up to date.
C17_NoAutoCorrection ==
    /\ (Called("init") /\ last.pre = "managed")
          => /\ last.kept
             /\ last.confined
             /\ last.faultfree => last.out = "managed"
    /\ (Called("sync") /\ last.pre = "managed" /\ last.faultfree)
          => last.fresh

\* createLink has found a managed copy of the text AGENTS.md held before it
\* was edited, and has left it
C17_Witness ==
    /\ Called("init") /\ last.pre = "managed" /\ last.faultfree
    /\ last.out = "managed" /\ ~last.fresh
    /\ fs[SOURCE_FILE] = File(AllTexts[2])
    /\ fs[last.t] = File(generateManagedHeader \o AllTexts[1])

\* C18 (fail-safe classification): createLink, updateManagedCopy and
\* removeLink, called on a target that is a directory, or a regular file
\* (with or without the marker) that cannot be read, report what they report
\* for a file that is not managed, not a failure, and leave the target and
\* everything else as they were.
C18_FailSafeClassification ==
    (/\ last.cmd \in {"init", "sync", "clean"}
     /\ \/ last.pre = "directory"
        \/ last.pre \in {"managed", "foreign"} /\ last.noread)
        => /\ last.out = (IF Called("init") THEN "skipped" ELSE "notmanaged")
           /\ last.kept
           /\ last.post = last.pre
           /\ last.confined

\* removeLink could not read a managed copy and has left it in place
C18_Witness ==
    /\ Called("clean") /\ last.pre = "managed" /\ last.noread
    /\ last.out = "notmanaged"
    /\ \E x \in Texts : fs[last.t] = File(generateManagedHeader \o x)

\* C19 (concurrent runs keep the source intact), as claimed: while two init
\* runs interleave their filesystem calls, no step changes AGENTS.md, and
\* when both runs have ended every target is a symlink to the source or a
\* regular file holding the managed copy.
C19_ConcurrentSourceIntact ==
    /\ [][fs'[SOURCE_FILE] = fs[SOURCE_FILE]]_vars
    /\ []((procs # <<>> /\ \A i \in Runs : procs[i].pc \in {"done", "thrown"})
            => \A t \in Targets : Classify(World, t) \in {"linksrc", "managed"})

\* C20 (init/clean inverse): when init starts with AGENTS.md in place and no
\* entry at any target, and init and the clean that follows it meet no I/O
\* error, then init creates every target (a symlink, or a managed copy where
\* the platform rejects symlinks), clean removes every one of them, and at
\* the end of clean no target has an entry; directories only remain.
C20_InitCleanInverse ==
    /\ (trip = "init" /\ Called("init"))
          => (last.pre = "absent" /\ last.out \in {"symlink", "copy"})
    /\ (trip = "init" /\ pc = "done")
          => \A t \in Targets : Classify(World, t) \in {"linksrc", "managed"}
    /\ (trip = "clean" /\ Called("clean"))
          => (last.out \in {"rmsymlink", "rmcopy"} /\ last.post = "absent")
    /\ (trip = "clean" /\ pc = "done")
          => /\ \A t \in Targets : fs[t] = Absent
             /\ \A t \in Targets : Dirname(t) \in dirs

\* init made a symlink and a managed copy, and clean has removed both
C20_Witness ==
    /\ trip = "clean" /\ pc = "done"
    /\ \E t, u \in Targets : results[t] = "rmsymlink" /\ results[u] = "rmcopy"
    /\ \A t \in Targets : fs[t] = Absent

====
